---- MODULE Spec2Model ----
(***************************************************************************)
(* Model of CrossAccountCredentialProvider (src/src/index.ts):             *)
(* resolveWithProfile with the credential cache kept in the plugin's Conf  *)
(* store, the named-profile lookup, the SSO token scan, and the two        *)
(* asynchronous acquisitions (SharedIniFileCredentials and                 *)
(* SSO.getRoleCredentials) whose promises complete the resolution; and     *)
(* canProvideCredentials / getProvider with the mapping read from cdk.json.*)
(***************************************************************************)
EXTENDS Integers, Sequences, FiniteSets, TLC

VARIABLES
    now,        \* the wall clock read by new Date()
    profiles,   \* the named profiles IniLoader.loadFrom returns
    ssoCache,   \* the directory ~/.aws/sso/cache
    cache,      \* pluginConfig: credentialCache.<profileName>
    calls,      \* the resolveWithProfile calls in flight
    issued,     \* the number of credential sets the services have issued
    lastOk,     \* history: the last credential a resolve of each profile returned
    cdkJson,    \* the file cdk.json of the working directory
    provider    \* this.crossAccountConfig, and history: the last call made on the provider

vars == <<now, profiles, ssoCache, cache, calls, issued, lastOk, cdkJson, provider>>

\* the state canProvideCredentials and getProvider read and write
configVars == <<cdkJson, provider>>

----------------------------------------------------------------------------
(* Bounds of the model *)

MaxTime == 3
MaxTTL == 2
MaxCreds == 2
MaxFiles == 3

Accounts == {"111111111111", "222222222222"}
StartUrls == {"X", "Y"}
Regions == {"R", "Q"}

----------------------------------------------------------------------------
(* Dates.  A Date is its time value; an invalid Date has the time value    *)
(* NaN, and every comparison with NaN is false.                            *)

NaN == -1

\* a < b on the numbers Date.getTime() / Date.valueOf() return
\* (faulty variant: the comparison written as !(a >= b), true of NaN)
DateLessMutNotGe(a, b) == a = NaN \/ b = NaN \/ a < b
\* (faulty variant: the comparison written as <=)
DateLessMutLe(a, b) == a # NaN /\ b # NaN /\ a <= b
DateLess(a, b) == a # NaN /\ b # NaN /\ a < b

\* Date.prototype.toISOString: the string written to the cache
ToISOString(t) == [tag |-> "iso", t |-> t]

\* a property that was never set
UndefinedString == [tag |-> "undefined", t |-> 0]

\* new Date(<string>).getTime()
ParseDate(s) == IF s.tag \in {"iso", "Z", "+00:00"} THEN s.t ELSE NaN

\* expiresAt.replace('UTC', '+00:00')
ReplaceUTC(s) == IF s.tag = "UTC" THEN [s EXCEPT !.tag = "+00:00"] ELSE s

----------------------------------------------------------------------------
(* Credentials.  A credential set is the pair of its serial number n (0    *)
(* for the static keys of a profile) and the expiry the service gave it;   *)
(* its three fields are distinct values that tell the set they belong to.  *)
(* 0 is a field that is not set.                                           *)

Unset == 0
\* the expireTime of a provider that has none (larger than every instant of the model)
NoExpireTime == 9
CredSet(n, exp) == 100 * (n + 1) + 10 * exp
StaticCred == CredSet(0, NoExpireTime)
AccessKeyIdOf(cs) == cs + 1
SecretAccessKeyOf(cs) == cs + 2
SessionTokenOf(cs) == cs + 3

\* history: the credential set a field value belongs to, and the expiry of a set
SetOf(v) == v - (v % 10)
ExpiryOf(cs) == (cs % 100) \div 10

\* new Credentials({accessKeyId, secretAccessKey, sessionToken})
\* (faulty variant: secret key and session token exchanged)
CredentialsMutSwap(a, s, t) == [kind |-> "ok", accessKeyId |-> a, secretAccessKey |-> t, sessionToken |-> s]
Credentials(a, s, t) == [kind |-> "ok", accessKeyId |-> a, secretAccessKey |-> s, sessionToken |-> t]

Rejected(kind) == [kind |-> kind, accessKeyId |-> Unset, secretAccessKey |-> Unset, sessionToken |-> Unset]

Pending == Rejected("pending")

----------------------------------------------------------------------------
(* The credential cache *)

NoEntry ==
    [present |-> FALSE, accessKeyId |-> Unset, secretAccessKey |-> Unset,
     sessionToken |-> Unset, expireTime |-> UndefinedString]

\* pluginConfig.has(`credentialCache.${profileName}`)
CacheHas(p) == cache[p].present

\* now < expires, with expires = new Date(cachedCredentials.expireTime).getTime()
\* (faulty variant: no cached record is taken as valid)
CachedIsValidMutNever(entry, t) == FALSE
CachedIsValid(entry, t) == DateLess(t, ParseDate(entry.expireTime))

\* the four pluginConfig.set calls of the .then callback; toISOString throws when
\* the provider has no expireTime, after the first three have been stored
\* (faulty variant: the record is stored under every profile name)
CacheWriteMutEveryProfile(c, p, cs, exp) ==
    [q \in DOMAIN c |->
        [present |-> TRUE, accessKeyId |-> AccessKeyIdOf(cs),
         secretAccessKey |-> SecretAccessKeyOf(cs),
         sessionToken |-> SessionTokenOf(cs),
         expireTime |-> IF exp = NoExpireTime THEN c[q].expireTime ELSE ToISOString(exp)]]
\* (faulty variant: a record already in the cache is kept)
CacheWriteMutFirstWins(c, p, cs, exp) ==
    IF c[p].present THEN c
    ELSE [c EXCEPT ![p] = [present |-> TRUE, accessKeyId |-> AccessKeyIdOf(cs),
                           secretAccessKey |-> SecretAccessKeyOf(cs),
                           sessionToken |-> SessionTokenOf(cs),
                           expireTime |-> IF exp = NoExpireTime THEN @.expireTime
                                          ELSE ToISOString(exp)]]
\* (faulty variant of CacheWrite: nothing is stored)
CacheWriteMutNoop(c, p, cs, exp) == c
CacheWrite(c, p, cs, exp) ==
    LET three == [c[p] EXCEPT !.present = TRUE,
                              !.accessKeyId = AccessKeyIdOf(cs),
                              !.secretAccessKey = SecretAccessKeyOf(cs),
                              !.sessionToken = SessionTokenOf(cs)]
    IN  IF exp = NoExpireTime
        THEN [c EXCEPT ![p] = three]
        ELSE [c EXCEPT ![p] = [three EXCEPT !.expireTime = ToISOString(exp)]]

----------------------------------------------------------------------------
(* Named profiles *)

UndefinedProfile ==
    [defined |-> FALSE, sso_start_url |-> "", sso_region |-> "", sso_role_name |-> "",
     sso_account_id |-> "", role_arn |-> "", mfa_serial |-> ""]

SsoProfile ==
    [defined |-> TRUE, sso_start_url |-> "X", sso_region |-> "R", sso_role_name |-> "Admin",
     sso_account_id |-> "999999999999", role_arn |-> "", mfa_serial |-> ""]

MfaProfile ==
    [defined |-> TRUE, sso_start_url |-> "", sso_region |-> "", sso_role_name |-> "",
     sso_account_id |-> "", role_arn |-> "arn:role", mfa_serial |-> "arn:mfa"]

StaticProfile ==
    [defined |-> TRUE, sso_start_url |-> "", sso_region |-> "", sso_role_name |-> "",
     sso_account_id |-> "", role_arn |-> "", mfa_serial |-> ""]

ProfileValues == {UndefinedProfile, SsoProfile, MfaProfile, StaticProfile}

\* profile === undefined
\* (faulty variant: the validation is skipped)
ProfileUndefinedMutNever(profile) == FALSE
ProfileUndefined(profile) == ~profile.defined

\* if(profile.sso_start_url)
\* (faulty variant: no profile is taken for an SSO profile)
UsesSSOMutNever(profile) == FALSE
UsesSSO(profile) == profile.sso_start_url # ""

----------------------------------------------------------------------------
(* SSO token files *)

NoToken ==
    [nested |-> FALSE, botocore |-> FALSE, json |-> FALSE, startUrl |-> "", region |-> "",
     accessToken |-> 0, expiresAt |-> UndefinedString]

TokenFile(url, region, id, expiresAt) ==
    [nested |-> FALSE, botocore |-> FALSE, json |-> TRUE, startUrl |-> url, region |-> region,
     accessToken |-> id, expiresAt |-> expiresAt]

\* !(existsSync(ssoCacheDirectory))
\* (faulty variant: the directory check is skipped)
CacheDirectoryMissingMutNever(dir) == FALSE
CacheDirectoryMissing(dir) == ~dir.exists

\* findFiles(dir, { matching: ['*.json', '!botocore*'], recursive: false })
\* (faulty variant: every file of the directory tree is read)
FindFilesMutAll(files) == files
FindFiles(files) ==
    SelectSeq(files, LAMBDA f : f.json /\ ~f.botocore /\ ~f.nested)

\* the predicate given to Array.prototype.find
\* (faulty variant: the region is not compared)
TokenMatchesMutNoRegion(tok, profile, t) ==
    /\ tok.startUrl = profile.sso_start_url
    /\ DateLess(t, ParseDate(ReplaceUTC(tok.expiresAt)))
TokenMatches(tok, profile, t) ==
    /\ tok.startUrl = profile.sso_start_url
    /\ tok.region = profile.sso_region
    /\ DateLess(t, ParseDate(ReplaceUTC(tok.expiresAt)))

\* Array.prototype.find: the first element the predicate accepts, else undefined
RECURSIVE ArrayFind(_, _, _)
ArrayFind(toks, profile, t) ==
    IF toks = <<>> THEN NoToken
    ELSE IF TokenMatches(Head(toks), profile, t) THEN Head(toks)
    ELSE ArrayFind(Tail(toks), profile, t)

----------------------------------------------------------------------------
(* Calls *)

NoRequest == [roleName |-> "", accountId |-> "", accessToken |-> 0]

\* the parameters of ssoClient.getRoleCredentials
\* (faulty variant: the account of the profile instead of the target account)
RequestMutProfileAccount(profile, targetAccount, ssoToken) ==
    [roleName |-> profile.sso_role_name,
     accountId |-> profile.sso_account_id,
     accessToken |-> ssoToken.accessToken]
Request(profile, targetAccount, ssoToken) ==
    [roleName |-> profile.sso_role_name,
     accountId |-> targetAccount,
     accessToken |-> ssoToken.accessToken]

NoPrev ==
    [accessKeyId |-> Unset, secretAccessKey |-> Unset, sessionToken |-> Unset, exp |-> NaN,
     sso |-> FALSE]

Idle ==
    [pc |-> "idle", profileName |-> "", targetAccount |-> "", log |-> <<>>,
     result |-> Pending, cached |-> "absent", prev |-> NoPrev,
     profile |-> UndefinedProfile, ssoToken |-> NoToken, request |-> NoRequest]

\* history: how the cache entry of the profile stood when the call began
CacheStatus(entry, t) ==
    IF ~entry.present THEN "absent"
    ELSE IF entry.expireTime.tag # "iso" THEN "unparsable"
    ELSE IF entry.expireTime.t > t THEN "valid"
    ELSE "expired"

\* history: the credential the previous resolve returned, while it has not expired
StillCurrent(prev, t) == IF prev.exp # NaN /\ t < prev.exp THEN prev ELSE NoPrev

\* what a completed resolve leaves in the history: the credential returned, its expiry,
\* and whether it came from the SSO token exchange
Returned(call, result, exp) ==
    [accessKeyId |-> result.accessKeyId, secretAccessKey |-> result.secretAccessKey,
     sessionToken |-> result.sessionToken, exp |-> exp,
     sso |-> (call.pc = "exchange")]

----------------------------------------------------------------------------
(* cdk.json and the provider object *)

\* a strategy descriptor: the value of crossAccountConfig.<accountId>; profile "" is a
\* descriptor with no profile field
NoDescriptor == [present |-> FALSE, profile |-> ""]
Descriptor(profile) == [present |-> TRUE, profile |-> profile]

\* the value of the crossAccountConfig key: undefined, or a mapping of account ids
UndefinedConfig == [defined |-> FALSE, entries |-> [a \in Accounts |-> NoDescriptor]]
Mapping(entries) == [defined |-> TRUE, entries |-> entries]

\* no cdk.json in the working directory
NoFile == [exists |-> FALSE, crossAccountConfig |-> UndefinedConfig]

\* history: no call has been made on the provider
NoCall == [seq |-> 0, op |-> "", accountId |-> "", outcome |-> ""]

\* the provider after its constructor: crossAccountConfig is not set; history: the last
\* call made on it, the call before that, and the accounts canProvideCredentials has
\* answered true for since cdk.json last changed
NewProvider ==
    [crossAccountConfig |-> UndefinedConfig, last |-> NoCall, before |-> NoCall,
     trueSince |-> {}]

\* the state after construction, for the given profile names and concurrent callers
InitWith(names, callers) ==
    /\ now = 0
    /\ profiles = [p \in names |-> UndefinedProfile]
    /\ ssoCache = [exists |-> FALSE, files |-> <<>>]
    /\ cache = [p \in names |-> NoEntry]
    /\ calls = [c \in callers |-> Idle]
    /\ issued = 0
    /\ lastOk = [p \in names |-> NoPrev]
    /\ cdkJson = NoFile
    /\ provider = NewProvider

Init == InitWith({"dev"}, {"c1"})

ProfileNames == DOMAIN profiles
Calls == DOMAIN calls

----------------------------------------------------------------------------
(* The environment *)

Tick ==
    /\ now < MaxTime
    /\ now' = now + 1
    /\ UNCHANGED configVars
    /\ UNCHANGED <<profiles, ssoCache, cache, calls, issued, lastOk>>

\* the user edits ~/.aws/config, which every call reads afresh
EditProfile(p, v) ==
    /\ profiles[p] # v
    /\ profiles' = [profiles EXCEPT ![p] = v]
    /\ UNCHANGED configVars
    /\ UNCHANGED <<now, ssoCache, cache, calls, issued, lastOk>>

\* aws sso login writes the token file of a start URL (one file per start URL)
SsoLogin(url, ttl) ==
    /\ now + ttl <= MaxTime + MaxTTL
    /\ LET tok == TokenFile(url, "R", 1, [tag |-> "UTC", t |-> now + ttl])
           others == SelectSeq(ssoCache.files, LAMBDA f : f.startUrl # url)
       IN  ssoCache' = [exists |-> TRUE, files |-> Append(others, tok)]
    /\ UNCHANGED configVars
    /\ UNCHANGED <<now, profiles, cache, calls, issued, lastOk>>

\* aws sso logout removes the token files
SsoLogout ==
    /\ ssoCache.files # <<>>
    /\ ssoCache' = [ssoCache EXCEPT !.files = <<>>]
    /\ UNCHANGED configVars
    /\ UNCHANGED <<now, profiles, cache, calls, issued, lastOk>>

----------------------------------------------------------------------------
(* resolveWithProfile: the synchronous part, up to the first promise *)

Finish(c, call, result, exp) ==
    /\ calls' = [calls EXCEPT ![c] = [call EXCEPT !.pc = "done", !.result = result]]
    /\ lastOk' = IF result.kind = "ok"
                 THEN [lastOk EXCEPT ![call.profileName] = Returned(call, result, exp)]
                 ELSE lastOk

ResolveWithProfile(c, p, a) ==
    /\ calls[c].pc = "idle"
    /\ LET entry == cache[p]
           profile == profiles[p]
           start == [Idle EXCEPT !.profileName = p, !.targetAccount = a,
                                 !.cached = CacheStatus(entry, now),
                                 !.prev = StillCurrent(lastOk[p], now),
                                 !.log = <<"cacheRead">>]
           looked == [start EXCEPT !.profile = profile, !.log = <<"cacheRead", "profileLookup">>]
           scanned == [looked EXCEPT !.log = Append(looked.log, "tokenScan")]
           ssoToken == ArrayFind(FindFiles(ssoCache.files), profile, now)
       IN  IF CacheHas(p) /\ CachedIsValid(entry, now)
           THEN Finish(c, start,
                       Credentials(entry.accessKeyId, entry.secretAccessKey, entry.sessionToken),
                       ParseDate(entry.expireTime))
           ELSE IF ProfileUndefined(profile)
           THEN Finish(c, looked, Rejected("ProfileNotFound"), NaN)
           ELSE IF UsesSSO(profile)
           THEN IF CacheDirectoryMissing(ssoCache)
                THEN Finish(c, looked, Rejected("SSOCacheMissing"), NaN)
                ELSE IF ssoToken = NoToken
                THEN Finish(c, scanned, Rejected("SSONotLoggedIn"), NaN)
                ELSE /\ calls' = [calls EXCEPT ![c] =
                            [scanned EXCEPT !.pc = "exchange",
                                            !.ssoToken = ssoToken,
                                            !.request = Request(profile, a, ssoToken),
                                            !.log = Append(scanned.log, "tokenExchange")]]
                     /\ UNCHANGED lastOk
           ELSE IF profile.mfa_serial # ""
           THEN /\ calls' = [calls EXCEPT ![c] =
                       [looked EXCEPT !.pc = "prompt", !.log = Append(looked.log, "prompt")]]
                /\ UNCHANGED lastOk
           ELSE /\ calls' = [calls EXCEPT ![c] =
                       [looked EXCEPT !.pc = "acquire", !.log = Append(looked.log, "acquire")]]
                /\ UNCHANGED lastOk
    /\ UNCHANGED <<now, profiles, ssoCache, cache, issued>>

\* resolveWithProfile called on its own
Resolve(c, p, a) ==
    /\ ResolveWithProfile(c, p, a)
    /\ UNCHANGED configVars

----------------------------------------------------------------------------
(* getTokenCode: the MFA prompt answers or is declined *)

PromptAnswer(c) ==
    /\ calls[c].pc = "prompt"
    /\ calls' = [calls EXCEPT ![c].pc = "acquire", ![c].log = Append(@, "acquire")]
    /\ UNCHANGED configVars
    /\ UNCHANGED <<now, profiles, ssoCache, cache, issued, lastOk>>

\* (faulty variant: the rejection of the prompt is swallowed, the callback is never called)
PromptCancelMutSwallowed(c) ==
    /\ calls[c].pc = "prompt"
    /\ calls' = [calls EXCEPT ![c].pc = "hung"]
    /\ UNCHANGED configVars
    /\ UNCHANGED <<now, profiles, ssoCache, cache, issued, lastOk>>

PromptCancel(c) ==
    /\ calls[c].pc = "prompt"
    /\ Finish(c, calls[c], Rejected("MFAPromptCancelled"), NaN)
    /\ UNCHANGED configVars
    /\ UNCHANGED <<now, profiles, ssoCache, cache, issued>>

----------------------------------------------------------------------------
(* provider.getPromise() settles; on success the .then callback runs *)

\* the .then callback of the profile branch, for provider credentials n expiring at exp
ThenCacheAndReturn(c, cs, exp) ==
    LET call == [calls[c] EXCEPT !.log = Append(@, "cacheWrite")]
    IN  /\ cache' = CacheWrite(cache, call.profileName, cs, exp)
        /\ IF exp = NoExpireTime
           THEN Finish(c, call, Rejected("TypeError"), NaN)
           ELSE Finish(c, call,
                       Credentials(AccessKeyIdOf(cs), SecretAccessKeyOf(cs), SessionTokenOf(cs)),
                       exp)

\* STS assumeRole answers with a new credential set
AcquireRoleOk(c, ttl) ==
    /\ calls[c].pc = "acquire"
    /\ calls[c].profile.role_arn # ""
    /\ issued < MaxCreds
    /\ issued' = issued + 1
    /\ ThenCacheAndReturn(c, CredSet(issued + 1, now + ttl), now + ttl)
    /\ UNCHANGED configVars
    /\ UNCHANGED <<now, profiles, ssoCache>>

\* a profile with static keys: the provider loads them and has no expireTime
AcquireStaticOk(c) ==
    /\ calls[c].pc = "acquire"
    /\ calls[c].profile.role_arn = ""
    /\ ThenCacheAndReturn(c, StaticCred, NoExpireTime)
    /\ UNCHANGED configVars
    /\ UNCHANGED <<now, profiles, ssoCache, issued>>

AcquireFail(c) ==
    /\ calls[c].pc = "acquire"
    /\ Finish(c, calls[c], Rejected("CredentialAcquisitionFailed"), NaN)
    /\ UNCHANGED configVars
    /\ UNCHANGED <<now, profiles, ssoCache, cache, issued>>

----------------------------------------------------------------------------
(* ssoClient.getRoleCredentials(...).promise() settles *)

\* the .then callback of the SSO branch: it builds the Credentials and stores nothing
ThenReturn(c, cs, exp) ==
    /\ Finish(c, calls[c],
              Credentials(AccessKeyIdOf(cs), SecretAccessKeyOf(cs), SessionTokenOf(cs)), exp)
    /\ UNCHANGED cache

ExchangeOk(c, ttl) ==
    /\ calls[c].pc = "exchange"
    /\ issued < MaxCreds
    /\ issued' = issued + 1
    /\ ThenReturn(c, CredSet(issued + 1, now + ttl), now + ttl)
    /\ UNCHANGED configVars
    /\ UNCHANGED <<now, profiles, ssoCache>>

ExchangeFail(c) ==
    /\ calls[c].pc = "exchange"
    /\ Finish(c, calls[c], Rejected("TokenExchangeFailed"), NaN)
    /\ UNCHANGED configVars
    /\ UNCHANGED <<now, profiles, ssoCache, cache, issued>>

\* the caller takes the settled promise
Return(c) ==
    /\ calls[c].pc = "done"
    /\ calls' = [calls EXCEPT ![c] = Idle]
    /\ UNCHANGED configVars
    /\ UNCHANGED <<now, profiles, ssoCache, cache, issued, lastOk>>

----------------------------------------------------------------------------

Next ==
    \/ Tick
    \/ \E p \in ProfileNames, v \in ProfileValues : EditProfile(p, v)
    \/ \E ttl \in 1..MaxTTL : SsoLogin("X", ttl)
    \/ SsoLogout
    \/ \E c \in Calls, p \in ProfileNames, a \in Accounts : Resolve(c, p, a)
    \/ \E c \in Calls : PromptAnswer(c)
    \/ \E c \in Calls : PromptCancel(c)
    \/ \E c \in Calls, ttl \in 1..MaxTTL : AcquireRoleOk(c, ttl)
    \/ \E c \in Calls : AcquireStaticOk(c)
    \/ \E c \in Calls : AcquireFail(c)
    \/ \E c \in Calls, ttl \in 1..MaxTTL : ExchangeOk(c, ttl)
    \/ \E c \in Calls : ExchangeFail(c)
    \/ \E c \in Calls : Return(c)

Spec == Init /\ [][Next]_vars

----------------------------------------------------------------------------
(* Vocabulary of the properties *)

\* the step begins a call of c / settles the promise of c
Begins(c) == calls[c].pc = "idle" /\ calls'[c].pc # "idle"
Settles(c) == calls[c].pc # "done" /\ calls'[c].pc = "done"

\* the record of profile p held in the cache has an expiry strictly after instant t
HoldsFutureExpiry(p, t) ==
    /\ cache[p].present
    /\ cache[p].expireTime.tag = "iso"
    /\ cache[p].expireTime.t > t

\* the call was answered from the cache alone
ServedFromCache(call) ==
    call.pc = "done" /\ call.result.kind = "ok" /\ call.log = <<"cacheRead">>

\* s is one of the steps the call has taken
Took(call, s) == \E i \in 1..Len(call.log) : call.log[i] = s

----------------------------------------------------------------------------
\* C1: a resolve of a profile whose cached record expires strictly after the current
\* instant returns exactly the cached access key id, secret key and session token, and
\* takes no step but the cache read (no profile lookup, token scan, prompt or network call).
C1_ValidCacheIsReturned ==
    [][\A c \in Calls :
         (Begins(c) /\ HoldsFutureExpiry(calls'[c].profileName, now)) =>
             LET entry == cache[calls'[c].profileName]
             IN  /\ calls'[c].pc = "done"
                 /\ calls'[c].result =
                        [kind |-> "ok", accessKeyId |-> entry.accessKeyId,
                         secretAccessKey |-> entry.secretAccessKey,
                         sessionToken |-> entry.sessionToken]
                 /\ calls'[c].log = <<"cacheRead">>]_vars

C1_Witness ==
    \E c \in Calls :
        /\ calls[c].cached = "valid"
        /\ ServedFromCache(calls[c])
        /\ calls[c].result.accessKeyId = cache[calls[c].profileName].accessKeyId
        /\ calls[c].result.accessKeyId # Unset

----------------------------------------------------------------------------
\* C2: when the cached record of a profile (SSO or not) has expired, a resolve that
\* succeeds returns newly resolved values and, as it completes, the cache entry of the
\* profile holds the returned access key id, secret key and session token with an
\* expiry after the current instant.
C2_ExpiredCacheIsOverwritten ==
    [][\A c \in Calls :
         (Settles(c) /\ calls'[c].result.kind = "ok" /\ calls'[c].cached = "expired") =>
             LET p == calls'[c].profileName
                 r == calls'[c].result
             IN  /\ Took(calls'[c], "profileLookup")
                 /\ cache'[p].present
                 /\ cache'[p].accessKeyId = r.accessKeyId
                 /\ cache'[p].secretAccessKey = r.secretAccessKey
                 /\ cache'[p].sessionToken = r.sessionToken
                 /\ cache'[p].expireTime.tag = "iso"
                 /\ cache'[p].expireTime.t > now]_vars

----------------------------------------------------------------------------
\* C3: a cached record is served if and only if the current instant is strictly before
\* its expiry; at the expiry instant itself it is treated as expired and the resolve goes
\* on to the profile lookup.
C3_ServedIffStrictlyBeforeExpiry ==
    [][\A c \in Calls :
         (Begins(c) /\ cache[calls'[c].profileName].present
                    /\ cache[calls'[c].profileName].expireTime.tag = "iso") =>
             LET expires == cache[calls'[c].profileName].expireTime.t
             IN  /\ ServedFromCache(calls'[c]) <=> now < expires
                 /\ now >= expires =>
                        /\ Len(calls'[c].log) >= 2
                        /\ calls'[c].log[2] = "profileLookup"]_vars

\* a call made at the very instant its cached record expires went on to full resolution
C3_Witness ==
    \E c \in Calls :
        /\ calls[c].pc # "idle"
        /\ calls[c].cached = "expired"
        /\ cache[calls[c].profileName].expireTime = ToISOString(now)
        /\ Took(calls[c], "profileLookup")
        /\ Len(calls[c].log) = 2

----------------------------------------------------------------------------
\* C4: round trip, for every profile (SSO or not): when a resolve of p has succeeded and
\* p is resolved again before the expiry of the credential just obtained, the second
\* call returns the same access key id, secret key and session token as the first.
C4_RoundTripIdentical ==
    \A c \in Calls :
        (calls[c].pc = "done" /\ calls[c].result.kind = "ok" /\ calls[c].prev.exp # NaN) =>
            /\ calls[c].result.accessKeyId = calls[c].prev.accessKeyId
            /\ calls[c].result.secretAccessKey = calls[c].prev.secretAccessKey
            /\ calls[c].result.sessionToken = calls[c].prev.sessionToken

----------------------------------------------------------------------------
\* the full chain of a non-SSO MFA profile
FullChain == <<"cacheRead", "profileLookup", "prompt", "acquire", "cacheWrite">>

\* the profile is a non-SSO profile with an MFA device
IsMfa(profile) == profile.defined /\ profile.sso_start_url = "" /\ profile.mfa_serial # ""

\* C5: in a sequential series of resolves of a non-SSO MFA profile: a full resolution
\* that succeeds with expiry E runs the whole chain and caches its result; every later
\* resolve before E returns that credential from the cache with no prompt; the first
\* resolve at or after E looks the profile up again and prompts again, and each further
\* step of the chain follows the answer of the one before.
C5_CachedUntilExpiryThenFullChain ==
    [][\A c \in Calls :
         /\ (Settles(c) /\ calls'[c].result.kind = "ok" /\ Took(calls'[c], "prompt")) =>
                LET p == calls'[c].profileName
                    r == calls'[c].result
                IN  /\ calls'[c].log = FullChain
                    /\ lastOk'[p].exp > now
                    /\ ~lastOk'[p].sso
                    /\ lastOk'[p].accessKeyId = r.accessKeyId
                    /\ cache'[p] = [present |-> TRUE, accessKeyId |-> r.accessKeyId,
                                    secretAccessKey |-> r.secretAccessKey,
                                    sessionToken |-> r.sessionToken,
                                    expireTime |-> ToISOString(lastOk'[p].exp)]
         /\ (Begins(c) /\ IsMfa(profiles[calls'[c].profileName])
                       /\ lastOk[calls'[c].profileName].exp # NaN
                       /\ ~lastOk[calls'[c].profileName].sso) =>
                LET last == lastOk[calls'[c].profileName]
                IN  IF now < last.exp
                    THEN /\ ServedFromCache(calls'[c])
                         /\ calls'[c].result.accessKeyId = last.accessKeyId
                         /\ calls'[c].result.secretAccessKey = last.secretAccessKey
                         /\ calls'[c].result.sessionToken = last.sessionToken
                         /\ ~Took(calls'[c], "prompt")
                    ELSE /\ calls'[c].pc = "prompt"
                         /\ calls'[c].log = SubSeq(FullChain, 1, 3)
         /\ (calls[c].pc = "prompt" /\ calls'[c].pc # "prompt") =>
                \/ calls'[c].pc = "acquire" /\ calls'[c].log = SubSeq(FullChain, 1, 4)
                \/ calls'[c].pc = "done" /\ calls'[c].result.kind = "MFAPromptCancelled"
         /\ (calls[c].pc = "acquire" /\ calls'[c].pc # "acquire"
                                     /\ IsMfa(calls[c].profile)) =>
                \/ calls'[c].pc = "done" /\ calls'[c].result.kind = "ok"
                                         /\ calls'[c].log = FullChain
                \/ calls'[c].pc = "done"
                       /\ calls'[c].result.kind = "CredentialAcquisitionFailed"]_vars

\* a resolve made at or after the expiry of the credential a full resolution obtained
\* is prompting again
C5_Witness ==
    \E c \in Calls :
        /\ calls[c].pc = "prompt"
        /\ calls[c].cached = "expired"
        /\ IsMfa(calls[c].profile)
        /\ lastOk[calls[c].profileName].exp # NaN
        /\ ~lastOk[calls[c].profileName].sso
        /\ lastOk[calls[c].profileName].exp <= now
        /\ cache[calls[c].profileName].accessKeyId = lastOk[calls[c].profileName].accessKeyId

----------------------------------------------------------------------------
\* C6 as stated: a resolve of a profile name that has no entry in the named-profile
\* store fails with ProfileNotFound, with no prompt and no network call.
C6_UnknownProfileAlwaysFails ==
    [][\A c \in Calls :
         (Begins(c) /\ ~profiles[calls'[c].profileName].defined) =>
             /\ calls'[c].pc = "done"
             /\ calls'[c].result.kind = "ProfileNotFound"
             /\ ~Took(calls'[c], "prompt")
             /\ ~Took(calls'[c], "acquire")
             /\ ~Took(calls'[c], "tokenExchange")]_vars

\* C6, amended: a resolve of a profile name that has no entry in the named-profile store
\* and no cached record with an expiry after the current instant fails with
\* ProfileNotFound, with no prompt and no network call; with such a cached record the
\* cached credential is returned.
C6_UnknownProfileFailsUnlessCached ==
    [][\A c \in Calls :
         (Begins(c) /\ ~profiles[calls'[c].profileName].defined) =>
             /\ calls'[c].pc = "done"
             /\ ~Took(calls'[c], "prompt")
             /\ ~Took(calls'[c], "acquire")
             /\ ~Took(calls'[c], "tokenExchange")
             /\ IF HoldsFutureExpiry(calls'[c].profileName, now)
                THEN calls'[c].result.kind = "ok"
                ELSE /\ calls'[c].result.kind = "ProfileNotFound"
                     /\ calls'[c].log = <<"cacheRead", "profileLookup">>]_vars

C6_Witness ==
    \E c \in Calls :
        /\ calls[c].pc = "done"
        /\ ~profiles[calls[c].profileName].defined
        /\ calls[c].result.kind = "ProfileNotFound"
        /\ calls[c].cached = "expired"

----------------------------------------------------------------------------
\* a token file the scan reads that matches the profile and expires after instant t
MatchingToken(f, profile, t) ==
    /\ f.json /\ ~f.botocore /\ ~f.nested
    /\ f.startUrl = profile.sso_start_url
    /\ f.region = profile.sso_region
    /\ f.expiresAt.tag \in {"UTC", "Z"}
    /\ f.expiresAt.t > t

\* C7: for an SSO profile with no valid cached credential: a missing token-cache
\* directory fails the resolve with SSOCacheMissing; a directory holding no token file
\* that matches start URL and region with a future expiry fails it with SSONotLoggedIn;
\* the two outcomes differ, and neither makes the token-exchange call.
C7_SsoCacheMissingVsNotLoggedIn ==
    [][\A c \in Calls :
         (Begins(c) /\ ~HoldsFutureExpiry(calls'[c].profileName, now)
                    /\ profiles[calls'[c].profileName].defined
                    /\ profiles[calls'[c].profileName].sso_start_url # "") =>
             LET profile == profiles[calls'[c].profileName]
                 files == ssoCache.files
                 matches == {i \in 1..Len(files) : MatchingToken(files[i], profile, now)}
             IN  /\ ~ssoCache.exists =>
                        /\ calls'[c].pc = "done"
                        /\ calls'[c].result.kind = "SSOCacheMissing"
                        /\ ~Took(calls'[c], "tokenExchange")
                 /\ (ssoCache.exists /\ matches = {}) =>
                        /\ calls'[c].pc = "done"
                        /\ calls'[c].result.kind = "SSONotLoggedIn"
                        /\ ~Took(calls'[c], "tokenExchange")
                 /\ (ssoCache.exists /\ matches # {}) =>
                        /\ calls'[c].pc = "exchange"
                        /\ calls'[c].result.kind = "pending"]_vars

\* the directory exists, its only token has expired, and the resolve failed
C7_Witness ==
    \E c \in Calls :
        /\ calls[c].pc = "done"
        /\ calls[c].result.kind = "SSONotLoggedIn"
        /\ ssoCache.exists
        /\ ssoCache.files # <<>>
        /\ calls[c].profile = profiles[calls[c].profileName]

----------------------------------------------------------------------------
\* C9: after every successful SSO resolution of profile p the cache holds an entry for
\* p with the exchanged access key id, secret key and session token, and with the
\* expiry instant of the SSO token that was used.
C9_SsoResultIsCached ==
    [][\A c \in Calls :
         (Settles(c) /\ calls'[c].result.kind = "ok" /\ Took(calls'[c], "tokenExchange")) =>
             LET p == calls'[c].profileName
                 r == calls'[c].result
             IN  /\ cache'[p].present
                 /\ cache'[p].accessKeyId = r.accessKeyId
                 /\ cache'[p].secretAccessKey = r.secretAccessKey
                 /\ cache'[p].sessionToken = r.sessionToken
                 /\ cache'[p].expireTime.tag = "iso"
                 /\ cache'[p].expireTime.t = calls'[c].ssoToken.expiresAt.t]_vars

----------------------------------------------------------------------------
\* C10: every cached record is complete and consistent: its access key id, secret key,
\* session token and expiry all come from the same successful resolution.
C10_CachedRecordsAreWhole ==
    \A p \in ProfileNames :
        cache[p].present =>
            LET cs == SetOf(cache[p].accessKeyId)
            IN  /\ cache[p].accessKeyId = AccessKeyIdOf(cs)
                /\ cache[p].secretAccessKey = SecretAccessKeyOf(cs)
                /\ cache[p].sessionToken = SessionTokenOf(cs)
                /\ ExpiryOf(cs) # NoExpireTime
                /\ cache[p].expireTime = ToISOString(ExpiryOf(cs))

----------------------------------------------------------------------------
(* The token scan over arbitrary directory contents: an SSO profile for    *)
(* (X, R) is resolved at instant 1 against every directory of at most      *)
(* MaxFiles files.                                                         *)

\* the timestamps a token file may carry: before, at and after instant 1, with the
\* UTC or the Z suffix, or text that is no timestamp
ExpiresAtValues ==
    {[tag |-> "UTC", t |-> t] : t \in 0..2} \cup {[tag |-> "Z", t |-> 2], [tag |-> "garbage", t |-> 0]}

\* the token files of the directory, and files findFiles does not return: a botocore
\* file, a file in a subdirectory, a file that is not .json
DirectoryFiles ==
    {TokenFile(url, region, 0, e) : url \in StartUrls, region \in Regions, e \in ExpiresAtValues}
    \cup {[TokenFile("X", "R", 0, [tag |-> "UTC", t |-> 2]) EXCEPT !.botocore = TRUE],
          [TokenFile("X", "R", 0, [tag |-> "UTC", t |-> 2]) EXCEPT !.nested = TRUE],
          [TokenFile("X", "R", 0, [tag |-> "UTC", t |-> 2]) EXCEPT !.json = FALSE]}

InitLocator ==
    /\ now = 1
    /\ profiles = [p \in {"dev"} |-> SsoProfile]
    /\ \E n \in 0..MaxFiles : \E fs \in [1..n -> DirectoryFiles] :
           ssoCache = [exists |-> TRUE,
                       files |-> [i \in 1..n |-> [fs[i] EXCEPT !.accessToken = i]]]
    /\ cache = [p \in {"dev"} |-> NoEntry]
    /\ calls = [c \in {"c1"} |-> Idle]
    /\ issued = 0
    /\ lastOk = [p \in {"dev"} |-> NoPrev]
    /\ cdkJson = NoFile
    /\ provider = NewProvider

NextLocator ==
    \/ \E c \in Calls, p \in ProfileNames, a \in Accounts : Resolve(c, p, a)
    \/ \E c \in Calls : ExchangeFail(c)
    \/ \E c \in Calls : Return(c)

SpecLocator == InitLocator /\ [][NextLocator]_vars

\* C8: SSO token selection: over every directory of candidate token records, the token
\* selected for the profile's (start URL, region) is the first one in enumeration order
\* whose start URL and region equal the requested ones and whose expiry is strictly after
\* the current instant; an expired token or one with another start URL or region is never
\* selected, and with no such token nothing is selected.
C8_FirstMatchingTokenSelected ==
    \A c \in Calls :
        Took(calls[c], "tokenScan") =>
            LET files == ssoCache.files
                matches == {i \in 1..Len(files) : MatchingToken(files[i], calls[c].profile, now)}
            IN  IF matches = {}
                THEN /\ calls[c].ssoToken = NoToken
                     /\ calls[c].result.kind = "SSONotLoggedIn"
                ELSE /\ \E i \in matches :
                            /\ \A j \in matches : i <= j
                            /\ calls[c].ssoToken = files[i]
                     /\ calls[c].ssoToken.startUrl = calls[c].profile.sso_start_url
                     /\ calls[c].ssoToken.region = calls[c].profile.sso_region
                     /\ calls[c].ssoToken.expiresAt.t > now
                     /\ Took(calls[c], "tokenExchange")

\* the directory holds A (expired), B (valid) and C (other start URL) and B is selected
C8_Witness ==
    \E c \in Calls :
        /\ Len(ssoCache.files) = 3
        /\ ssoCache.files[1] = TokenFile("X", "R", 1, [tag |-> "UTC", t |-> 0])
        /\ ssoCache.files[2] = TokenFile("X", "R", 2, [tag |-> "UTC", t |-> 2])
        /\ ssoCache.files[3] = TokenFile("Y", "R", 3, [tag |-> "UTC", t |-> 2])
        /\ calls[c].pc = "exchange"
        /\ calls[c].ssoToken = ssoCache.files[2]

----------------------------------------------------------------------------
\* no step appears twice among the steps the call has taken
NoStepRepeated(call) ==
    \A i, j \in 1..Len(call.log) : call.log[i] = call.log[j] => i = j

\* C11: whenever a step of a resolution fails, the resolve ends in an error delivered to
\* the caller, no step has been tried twice, and the credential cache is what it was
\* before the resolve began (no step of a failing resolve changes the cache).
C11_FailureLeavesCacheUnchanged ==
    [][\A c \in Calls :
         (Settles(c) /\ calls'[c].result.kind # "ok") =>
             /\ calls'[c].result.kind \in
                    {"ProfileNotFound", "SSOCacheMissing", "SSONotLoggedIn",
                     "TokenExchangeFailed", "MFAPromptCancelled",
                     "CredentialAcquisitionFailed"}
             /\ NoStepRepeated(calls'[c])
             /\ cache' = cache]_vars

----------------------------------------------------------------------------
(* canProvideCredentials and getProvider: a provider whose mapping comes   *)
(* from a cdk.json that may be created, edited and removed between calls,  *)
(* with one named profile, dev, that assumes a role with an MFA device,    *)
(* all at one instant.                                                     *)

\* the descriptors cdk.json may give an account: none, one naming profile dev, one
\* with no profile field
DescriptorValues == {NoDescriptor, Descriptor("dev"), Descriptor("")}

\* the contents cdk.json may have: no file, a file with no crossAccountConfig key, a
\* file with a crossAccountConfig mapping
FileValues ==
    {NoFile, [exists |-> TRUE, crossAccountConfig |-> UndefinedConfig]}
        \cup {[exists |-> TRUE, crossAccountConfig |-> Mapping(e)] :
                  e \in [Accounts -> DescriptorValues]}

\* this.crossAccountConfig after canProvideCredentials: read from cdk.json when the file
\* exists, left as it was otherwise
\* (faulty variant: read on the first call only)
LoadConfigMutOnce(held, file) ==
    IF held.defined THEN held
    ELSE IF file.exists THEN file.crossAccountConfig ELSE held
LoadConfig(held, file) ==
    IF file.exists THEN file.crossAccountConfig ELSE held

\* has(this.crossAccountConfig, accountId)
\* (faulty variant: any mapping answers for every account)
HasMutAnyAccount(config, accountId) == config.defined
Has(config, accountId) == config.defined /\ config.entries[accountId].present

\* get(this.crossAccountConfig, accountId)
Get(config, accountId) ==
    IF config.defined THEN config.entries[accountId] ELSE NoDescriptor

\* config.profile, "" when the descriptor has no profile field
\* (faulty variant: a descriptor with no profile falls back to profile dev)
ProfileOfMutDefault(config) == IF config.profile = "" THEN "dev" ELSE config.profile
ProfileOf(config) == config.profile

\* history: the record of a call made on the provider
Called(op, accountId, outcome) ==
    [seq |-> 1 - provider.last.seq, op |-> op, accountId |-> accountId,
     outcome |-> outcome]

\* cdk.json is created, edited or removed
EditCdkJson(v) ==
    /\ v # cdkJson
    /\ cdkJson' = v
    /\ provider' = [provider EXCEPT !.trueSince = {}]
    /\ UNCHANGED <<now, profiles, ssoCache, cache, calls, issued, lastOk>>

canProvideCredentials(accountId) ==
    LET crossAccountConfig == LoadConfig(provider.crossAccountConfig, cdkJson)
        answer == cdkJson.exists /\ crossAccountConfig.defined
                      /\ Has(crossAccountConfig, accountId)
    IN  /\ provider' =
               [crossAccountConfig |-> crossAccountConfig,
                last |-> Called("canProvideCredentials", accountId,
                                IF answer THEN "true" ELSE "false"),
                before |-> provider.last,
                trueSince |-> IF answer THEN provider.trueSince \cup {accountId}
                              ELSE provider.trueSince \ {accountId}]
        /\ UNCHANGED <<now, profiles, ssoCache, cache, calls, issued, lastOk, cdkJson>>

\* getProvider of caller c: throws on a missing descriptor, starts resolveWithProfile
\* when the descriptor names a profile, returns undefined otherwise
getProvider(c, accountId) ==
    LET config == Get(provider.crossAccountConfig, accountId)
    IN  /\ UNCHANGED cdkJson
        /\ IF ~config.present
           THEN /\ provider' = [provider EXCEPT
                                   !.last = Called("getProvider", accountId, "TypeError"),
                                   !.before = provider.last]
                /\ UNCHANGED <<now, profiles, ssoCache, cache, calls, issued, lastOk>>
           ELSE IF ProfileOf(config) # ""
           THEN /\ ResolveWithProfile(c, ProfileOf(config), accountId)
                /\ provider' = [provider EXCEPT
                                   !.last = Called("getProvider", accountId,
                                                   "resolveWithProfile"),
                                   !.before = provider.last]
           ELSE /\ provider' = [provider EXCEPT
                                   !.last = Called("getProvider", accountId, "undefined"),
                                   !.before = provider.last]
                /\ UNCHANGED <<now, profiles, ssoCache, cache, calls, issued, lastOk>>

InitConfig ==
    /\ now = 0
    /\ profiles = [p \in {"dev"} |-> MfaProfile]
    /\ ssoCache = [exists |-> FALSE, files |-> <<>>]
    /\ cache = [p \in {"dev"} |-> NoEntry]
    /\ calls = [c \in {"c1"} |-> Idle]
    /\ issued = 0
    /\ lastOk = [p \in {"dev"} |-> NoPrev]
    /\ cdkJson = NoFile
    /\ provider = NewProvider

NextConfig ==
    \/ \E v \in FileValues : EditCdkJson(v)
    \/ \E a \in Accounts : canProvideCredentials(a)
    \/ \E c \in Calls, a \in Accounts : getProvider(c, a)
    \/ \E c \in Calls : PromptAnswer(c)
    \/ \E c \in Calls : PromptCancel(c)
    \/ \E c \in Calls, ttl \in 1..MaxTTL : AcquireRoleOk(c, ttl)
    \/ \E c \in Calls : AcquireFail(c)
    \/ \E c \in Calls : Return(c)

SpecConfig == InitConfig /\ [][NextConfig]_vars

\* the step is a call of op on the provider
IsCall(op) == provider'.last.seq # provider.last.seq /\ provider'.last.op = op

----------------------------------------------------------------------------
\* C12: canProvideCredentials(accountId) answers true exactly when cdk.json exists,
\* contains a crossAccountConfig mapping, and the mapping has an entry for accountId;
\* in every other case it answers false.
C12_CanProvideIffConfigured ==
    [][\A a \in Accounts :
         (IsCall("canProvideCredentials") /\ provider'.last.accountId = a) =>
             /\ provider'.last.outcome \in {"true", "false"}
             /\ provider'.last.outcome = "true" <=>
                    /\ cdkJson.exists
                    /\ cdkJson.crossAccountConfig.defined
                    /\ cdkJson.crossAccountConfig.entries[a].present]_vars

\* canProvideCredentials has answered true for an account of the mapping in cdk.json
C12_Witness ==
    /\ provider.last.op = "canProvideCredentials"
    /\ provider.last.outcome = "true"
    /\ cdkJson.exists
    /\ cdkJson.crossAccountConfig.entries[provider.last.accountId].present

----------------------------------------------------------------------------
\* C13: when the descriptor of the requested account has no profile field, getProvider
\* returns no credential (undefined), and no resolve is started: no call is begun, no
\* prompt or network collaborator is invoked, and the cache is unchanged.
C13_NoStrategyYieldsNothing ==
    [][\A a \in Accounts :
         (/\ IsCall("getProvider")
          /\ provider'.last.accountId = a
          /\ provider.crossAccountConfig.defined
          /\ provider.crossAccountConfig.entries[a] = Descriptor("")) =>
             /\ provider'.last.outcome = "undefined"
             /\ calls' = calls
             /\ cache' = cache
             /\ issued' = issued
             /\ lastOk' = lastOk]_vars

\* getProvider has returned undefined for an account whose descriptor names no profile
C13_Witness ==
    /\ provider.last.op = "getProvider"
    /\ provider.last.outcome = "undefined"
    /\ provider.crossAccountConfig.defined
    /\ provider.crossAccountConfig.entries[provider.last.accountId] = Descriptor("")
    /\ \A c \in Calls : calls[c].pc = "idle"

----------------------------------------------------------------------------
\* the mapping has been loaded: this.crossAccountConfig holds a mapping
Loaded == provider.crossAccountConfig.defined

\* C15 as stated: the mapping held by the provider is loaded once and is immutable:
\* after it has first been loaded, no later canProvideCredentials or getProvider call
\* changes it.
C15_MappingNeverChangesOnceLoaded ==
    [][(Loaded /\ (IsCall("canProvideCredentials") \/ IsCall("getProvider"))) =>
           provider'.crossAccountConfig = provider.crossAccountConfig]_vars

\* C15, amended: getProvider never changes the mapping held by the provider;
\* canProvideCredentials reads it again from cdk.json on every call made while the file
\* exists, and leaves it as it was when the file does not exist; so a call changes the
\* mapping held only when cdk.json has changed since the mapping was read.
C15_MappingFollowsFile ==
    [][/\ IsCall("getProvider") =>
              provider'.crossAccountConfig = provider.crossAccountConfig
       /\ IsCall("canProvideCredentials") =>
              /\ cdkJson.exists =>
                     provider'.crossAccountConfig = cdkJson.crossAccountConfig
              /\ ~cdkJson.exists =>
                     provider'.crossAccountConfig = provider.crossAccountConfig
              /\ (cdkJson.exists /\ provider.crossAccountConfig = cdkJson.crossAccountConfig) =>
                     provider'.crossAccountConfig = provider.crossAccountConfig]_vars

\* canProvideCredentials has been called twice, and the mapping held after the second
\* call is that of a cdk.json which no longer has the account the first call found
C15_Witness ==
    /\ provider.last.op = "canProvideCredentials"
    /\ provider.before.op = "canProvideCredentials"
    /\ provider.before.outcome = "true"
    /\ provider.last.accountId = provider.before.accountId
    /\ provider.last.outcome = "false"
    /\ Loaded
    /\ provider.crossAccountConfig = cdkJson.crossAccountConfig

----------------------------------------------------------------------------
\* C19: getProvider(a) takes the descriptor of a from the mapping stored by the most
\* recent canProvideCredentials call: once canProvideCredentials(a) has answered true
\* and while cdk.json is unchanged, whatever canProvideCredentials calls for other
\* accounts come in between, getProvider(a) finds the descriptor cdk.json gives a and,
\* when it names a profile, starts the resolve of that profile for a.
C19_DescriptorSurvivesOtherChecks ==
    [][\A a \in Accounts :
         (IsCall("getProvider") /\ provider'.last.accountId = a
                                /\ a \in provider.trueSince) =>
             LET d == cdkJson.crossAccountConfig.entries[a]
             IN  /\ cdkJson.exists /\ cdkJson.crossAccountConfig.defined /\ d.present
                 /\ Get(provider.crossAccountConfig, a) = d
                 /\ IF d.profile # ""
                    THEN /\ provider'.last.outcome = "resolveWithProfile"
                         /\ \E c \in Calls :
                                /\ Begins(c)
                                /\ calls'[c].profileName = d.profile
                                /\ calls'[c].targetAccount = a
                    ELSE provider'.last.outcome = "undefined"]_vars

\* getProvider(a) has started a resolve right after canProvideCredentials answered
\* false for another account, a having been answered true before that
C19_Witness ==
    /\ provider.last.op = "getProvider"
    /\ provider.last.outcome = "resolveWithProfile"
    /\ provider.last.accountId \in provider.trueSince
    /\ provider.before.op = "canProvideCredentials"
    /\ provider.before.accountId # provider.last.accountId
    /\ provider.before.outcome = "false"
    /\ \E c \in Calls : calls[c].targetAccount = provider.last.accountId

----------------------------------------------------------------------------
(* Two callers resolving the same profile: dev assumes a role with an MFA  *)
(* device, and the resolutions of callers c1 and c2 interleave freely.     *)

Callers == {"c1", "c2"}

InitConcurrent ==
    /\ now = 0
    /\ profiles = [p \in {"dev"} |-> MfaProfile]
    /\ ssoCache = [exists |-> FALSE, files |-> <<>>]
    /\ cache = [p \in {"dev"} |-> NoEntry]
    /\ calls = [c \in Callers |-> Idle]
    /\ issued = 0
    /\ lastOk = [p \in {"dev"} |-> NoPrev]
    /\ cdkJson = NoFile
    /\ provider = NewProvider

NextConcurrent ==
    \/ Tick
    \/ \E c \in Calls, a \in Accounts : Resolve(c, "dev", a)
    \/ \E c \in Calls : PromptAnswer(c)
    \/ \E c \in Calls : PromptCancel(c)
    \/ \E c \in Calls, ttl \in 1..MaxTTL : AcquireRoleOk(c, ttl)
    \/ \E c \in Calls : AcquireFail(c)
    \/ \E c \in Calls : Return(c)

SpecConcurrent == InitConcurrent /\ [][NextConcurrent]_vars

\* the call has gone through the full resolution and obtained a credential
CompletedInFull(call) ==
    call.pc = "done" /\ call.result.kind = "ok" /\ call.log = FullChain

\* C14: two resolutions of the same profile that find no valid cached record both go
\* through the full resolution, neither waiting for the other; each one that succeeds
\* overwrites the cache entry with its own record, so that once both have completed the
\* entry is the record of the one that wrote last (the later credential set issued).
C14_LastWriterWins ==
    [][/\ \A c \in Calls :
              (Settles(c) /\ calls'[c].result.kind = "ok"
                          /\ Took(calls'[c], "cacheWrite")) =>
                  LET p == calls'[c].profileName
                      r == calls'[c].result
                  IN  /\ cache'[p].present
                      /\ cache'[p].accessKeyId = r.accessKeyId
                      /\ cache'[p].secretAccessKey = r.secretAccessKey
                      /\ cache'[p].sessionToken = r.sessionToken
                      /\ cache'[p].expireTime = ToISOString(ExpiryOf(SetOf(r.accessKeyId)))
       /\ \A c \in Calls, d \in Calls :
              (/\ c # d
               /\ CompletedInFull(calls'[c])
               /\ CompletedInFull(calls'[d])
               /\ calls'[c].profileName = calls'[d].profileName
               /\ calls'[c].result.accessKeyId < calls'[d].result.accessKeyId) =>
                  LET p == calls'[d].profileName
                      r == calls'[d].result
                  IN  /\ cache'[p].accessKeyId = r.accessKeyId
                      /\ cache'[p].secretAccessKey = r.secretAccessKey
                      /\ cache'[p].sessionToken = r.sessionToken
                      /\ cache'[p].expireTime =
                             ToISOString(ExpiryOf(SetOf(r.accessKeyId)))]_vars

\* both callers began with no cached record, both went through the full resolution,
\* and the cache holds the record of the second to write
C14_Witness ==
    /\ calls["c1"].cached = "absent"
    /\ calls["c2"].cached = "absent"
    /\ CompletedInFull(calls["c1"])
    /\ CompletedInFull(calls["c2"])
    /\ calls["c1"].result.accessKeyId < calls["c2"].result.accessKeyId
    /\ cache["dev"].accessKeyId = calls["c2"].result.accessKeyId

----------------------------------------------------------------------------
\* the steps of a resolve through the SSO token locator and the token exchange
SsoChain == <<"cacheRead", "profileLookup", "tokenScan", "tokenExchange">>

\* s is an initial part of t
IsPrefix(s, t) == Len(s) <= Len(t) /\ s = SubSeq(t, 1, Len(s))

\* C16: strategy dispatch is exclusive. A resolve that found no valid cached record and
\* read a profile with an SSO start URL goes only through the token scan and the token
\* exchange, and never prompts for an MFA code or acquires through the profile; one that
\* read a profile without an SSO start URL goes only through the prompt and the
\* profile-based acquisition, and never scans the token directory or calls the token
\* exchange.
C16_DispatchIsExclusive ==
    \A c \in Calls :
        (Took(calls[c], "profileLookup") /\ calls[c].profile.defined) =>
            IF calls[c].profile.sso_start_url # ""
            THEN /\ IsPrefix(calls[c].log, SsoChain)
                 /\ ~Took(calls[c], "prompt")
                 /\ ~Took(calls[c], "acquire")
                 /\ ~Took(calls[c], "cacheWrite")
                 /\ calls[c].pc \notin {"prompt", "acquire"}
                 /\ (calls[c].pc = "done" /\ calls[c].result.kind = "ok") =>
                        calls[c].log = SsoChain
            ELSE /\ ~Took(calls[c], "tokenScan")
                 /\ ~Took(calls[c], "tokenExchange")
                 /\ calls[c].pc # "exchange"
                 /\ (calls[c].pc = "done" /\ calls[c].result.kind = "ok") =>
                        Took(calls[c], "acquire")

\* a resolve of an SSO profile has obtained a credential through scan and exchange
C16_Witness ==
    \E c \in Calls :
        /\ calls[c].pc = "done"
        /\ calls[c].result.kind = "ok"
        /\ calls[c].profile.sso_start_url # ""
        /\ calls[c].log = SsoChain

----------------------------------------------------------------------------
----------------------------------------------------------------------------
\* the file lies in a subdirectory of the token directory or is named botocore*
Excluded(f) == f.nested \/ f.botocore

\* C18: a token file in a subdirectory of the SSO token directory, or one whose name
\* matches botocore*, is never selected, even when its start URL and region are those of
\* the profile and its expiry is in the future; when the only files with such contents
\* are excluded ones, the resolve fails with SSONotLoggedIn.
C18_ExcludedFilesNeverSelected ==
    \A c \in Calls :
        Took(calls[c], "tokenScan") =>
            /\ calls[c].ssoToken # NoToken => ~Excluded(calls[c].ssoToken)
            /\ (\A i \in 1..Len(ssoCache.files) :
                    TokenMatches(ssoCache.files[i], calls[c].profile, now) =>
                        Excluded(ssoCache.files[i])) =>
                   /\ calls[c].ssoToken = NoToken
                   /\ calls[c].pc = "done"
                   /\ calls[c].result.kind = "SSONotLoggedIn"
                   /\ ~Took(calls[c], "tokenExchange")

\* the directory holds a botocore file and a file of a subdirectory, both with the start
\* URL and region of the profile and an expiry in the future, and no other such token:
\* the resolve has failed with SSONotLoggedIn
C18_Witness ==
    \E c \in Calls :
        /\ calls[c].pc = "done"
        /\ calls[c].result.kind = "SSONotLoggedIn"
        /\ \E i, j \in 1..Len(ssoCache.files) :
               /\ ssoCache.files[i].botocore
               /\ ssoCache.files[j].nested
               /\ TokenMatches(ssoCache.files[i], calls[c].profile, now)
               /\ TokenMatches(ssoCache.files[j], calls[c].profile, now)

----------------------------------------------------------------------------
(* Completion of a resolve: one caller, a profile and an SSO token         *)
(* directory fixed at the start, and collaborators (the prompt, STS, the   *)
(* SSO service) that answer every request made to them sooner or later.    *)

\* the SSO token directories of the start: none, an empty one, one with a token for
\* (X, R) that expires at instant 2
DirectoryValues ==
    {[exists |-> FALSE, files |-> <<>>],
     [exists |-> TRUE, files |-> <<>>],
     [exists |-> TRUE, files |-> <<TokenFile("X", "R", 1, [tag |-> "UTC", t |-> 2])>>]}

InitLive ==
    /\ now = 0
    /\ profiles \in [{"dev"} -> ProfileValues]
    /\ ssoCache \in DirectoryValues
    /\ cache = [p \in {"dev"} |-> NoEntry]
    /\ calls = [c \in {"c1"} |-> Idle]
    /\ issued = 0
    /\ lastOk = [p \in {"dev"} |-> NoPrev]
    /\ cdkJson = NoFile
    /\ provider = NewProvider

\* a collaborator answers the request caller c is waiting on
Respond(c) ==
    \/ PromptAnswer(c)
    \/ PromptCancel(c)
    \/ \E ttl \in 1..MaxTTL : AcquireRoleOk(c, ttl)
    \/ AcquireStaticOk(c)
    \/ AcquireFail(c)
    \/ \E ttl \in 1..MaxTTL : ExchangeOk(c, ttl)
    \/ ExchangeFail(c)

NextLive ==
    \/ Tick
    \/ \E c \in Calls, p \in ProfileNames, a \in Accounts : Resolve(c, p, a)
    \/ \E c \in Calls : PromptAnswer(c)
    \/ \E c \in Calls : PromptCancel(c)
    \/ \E c \in Calls, ttl \in 1..MaxTTL : AcquireRoleOk(c, ttl)
    \/ \E c \in Calls : AcquireStaticOk(c)
    \/ \E c \in Calls : AcquireFail(c)
    \/ \E c \in Calls, ttl \in 1..MaxTTL : ExchangeOk(c, ttl)
    \/ \E c \in Calls : ExchangeFail(c)
    \/ \E c \in Calls : Return(c)

\* every collaborator eventually responds
SpecLive == InitLive /\ [][NextLive]_vars /\ WF_vars(Respond("c1"))

\* the place of a step in the order of a resolution
StepRank(s) ==
    CASE s = "cacheRead" -> 1
      [] s = "profileLookup" -> 2
      [] s = "tokenScan" -> 3
      [] s = "prompt" -> 4
      [] s \in {"acquire", "tokenExchange"} -> 5
      [] s = "cacheWrite" -> 6

\* the steps of the call were taken in the order cache read, profile lookup, token scan,
\* prompt, network call, cache write, and a cache write comes right after an acquisition
\* that succeeded
StepsInOrder(call) ==
    /\ \A i, j \in 1..Len(call.log) : i < j => StepRank(call.log[i]) < StepRank(call.log[j])
    /\ Len(call.log) > 0 => call.log[1] = "cacheRead"
    /\ Took(call, "cacheWrite") =>
           /\ Len(call.log) >= 2
           /\ call.log[Len(call.log)] = "cacheWrite"
           /\ call.log[Len(call.log) - 1] = "acquire"
           /\ call.pc = "done"
           /\ call.result.kind # "CredentialAcquisitionFailed"
           /\ cache[call.profileName].accessKeyId # Unset
    /\ (call.pc = "done" /\ call.result.kind = "CredentialAcquisitionFailed") =>
           ~Took(call, "cacheWrite")

\* the result of a call that has completed: a credential or an error
Completed(call) ==
    /\ call.pc = "done"
    /\ \/ call.result.kind = "ok" /\ call.result.accessKeyId # Unset
       \/ call.result.kind \in
              {"ProfileNotFound", "SSOCacheMissing", "SSONotLoggedIn", "TokenExchangeFailed",
               "MFAPromptCancelled", "CredentialAcquisitionFailed", "TypeError"}

\* C20: provided every collaborator it calls eventually responds, every resolve that has
\* begun eventually completes with a credential or an error; and within a resolve the
\* steps occur in the order cache read, token scan, prompt, network call, cache write,
\* a cache write never coming before a successful acquisition.
C20_EveryResolveCompletesInOrder ==
    /\ (calls["c1"].pc \notin {"idle", "done"}) ~> Completed(calls["c1"])
    /\ [](calls["c1"].pc # "idle" => StepsInOrder(calls["c1"]))
    /\ [](calls["c1"].pc = "done" => Completed(calls["c1"]))

\* a resolve that waited on the prompt and then on STS has completed with a credential
C20_Witness ==
    /\ Completed(calls["c1"])
    /\ calls["c1"].result.kind = "ok"
    /\ calls["c1"].log = FullChain

----------------------------------------------------------------------------
\* C21: the cache is keyed by the profile name alone, so a cache hit does not depend on
\* the target account: when a resolve of a profile for one account has obtained and
\* cached a credential, a resolve of the same profile for another account, made while
\* the cache holds that credential and before its expiry, is served from the cache and
\* returns the same access key id, secret key and session token.
C21_CacheHitIgnoresTargetAccount ==
    [][\A c \in Calls, d \in Calls :
         (/\ c # d
          /\ CompletedInFull(calls[c])
          /\ Begins(d)
          /\ calls'[d].profileName = calls[c].profileName
          /\ calls'[d].targetAccount # calls[c].targetAccount
          /\ cache[calls[c].profileName].accessKeyId = calls[c].result.accessKeyId
          /\ now < ExpiryOf(SetOf(calls[c].result.accessKeyId))) =>
             /\ ServedFromCache(calls'[d])
             /\ calls'[d].result = calls[c].result
             /\ cache' = cache]_vars

\* the credential caller c1 obtained for the first account has been returned from the
\* cache to caller c2 resolving the same profile for the second account
C21_Witness ==
    /\ CompletedInFull(calls["c1"])
    /\ calls["c1"].targetAccount = "111111111111"
    /\ ServedFromCache(calls["c2"])
    /\ calls["c2"].targetAccount = "222222222222"
    /\ calls["c2"].profileName = calls["c1"].profileName
    /\ calls["c2"].result = calls["c1"].result
    /\ calls["c2"].result.accessKeyId # Unset

----------------------------------------------------------------------------
(* Two profiles, dev and prod, each assuming a role with an MFA device or  *)
(* holding static keys, resolved in turn by one caller.                    *)

InitFrame ==
    /\ now = 0
    /\ profiles \in [{"dev", "prod"} -> {MfaProfile, StaticProfile}]
    /\ ssoCache = [exists |-> FALSE, files |-> <<>>]
    /\ cache = [p \in {"dev", "prod"} |-> NoEntry]
    /\ calls = [c \in {"c1"} |-> Idle]
    /\ issued = 0
    /\ lastOk = [p \in {"dev", "prod"} |-> NoPrev]
    /\ cdkJson = NoFile
    /\ provider = NewProvider

NextFrame ==
    \/ Tick
    \/ \E c \in Calls, p \in ProfileNames, a \in Accounts : Resolve(c, p, a)
    \/ \E c \in Calls : PromptAnswer(c)
    \/ \E c \in Calls : PromptCancel(c)
    \/ \E c \in Calls, ttl \in 1..MaxTTL : AcquireRoleOk(c, ttl)
    \/ \E c \in Calls : AcquireStaticOk(c)
    \/ \E c \in Calls : AcquireFail(c)
    \/ \E c \in Calls : Return(c)

SpecFrame == InitFrame /\ [][NextFrame]_vars

\* the step is a step of the resolve of caller c
StepOf(c) == calls'[c] # calls[c] /\ calls'[c].pc # "idle"

----------------------------------------------------------------------------
(* Resolves against a store left by earlier runs: the cache entry of dev   *)
(* is absent, or holds a record whose expireTime is a timestamp, is        *)
(* missing, or is text that is no timestamp.                               *)

\* text in the place of expireTime that Date cannot parse
Garbage == [tag |-> "garbage", t |-> MaxTime + MaxTTL]

\* a record of the store left by an earlier run, with the given expireTime
Stored(expireTime) ==
    [present |-> TRUE, accessKeyId |-> AccessKeyIdOf(StaticCred),
     secretAccessKey |-> SecretAccessKeyOf(StaticCred),
     sessionToken |-> SessionTokenOf(StaticCred), expireTime |-> expireTime]

StoredEntries ==
    {NoEntry, Stored(UndefinedString), Stored(Garbage)}
        \cup {Stored(ToISOString(t)) : t \in 0..MaxTime}

InitStored ==
    /\ now = 0
    /\ profiles \in [{"dev"} -> ProfileValues]
    /\ ssoCache \in DirectoryValues
    /\ cache \in [{"dev"} -> StoredEntries]
    /\ calls = [c \in {"c1"} |-> Idle]
    /\ issued = 0
    /\ lastOk = [p \in {"dev"} |-> NoPrev]
    /\ cdkJson = NoFile
    /\ provider = NewProvider

SpecStored == InitStored /\ [][NextLive]_vars

\* the record has no expireTime, or one that is no timestamp
LacksExpiry(entry) ==
    entry.present /\ entry.expireTime.tag \in {"undefined", "garbage"}

\* C23: a cache entry that exists but has no expiry field, or an expiry that cannot be
\* parsed, is never served: the resolve treats it as expired and goes on to the profile
\* lookup and the full resolution.
C23_EntryWithoutExpiryNeverServed ==
    [][\A c \in Calls :
         (Begins(c) /\ LacksExpiry(cache[calls'[c].profileName])) =>
             /\ ~ServedFromCache(calls'[c])
             /\ Len(calls'[c].log) >= 2
             /\ calls'[c].log[2] = "profileLookup"
             /\ calls'[c].profile = profiles[calls'[c].profileName]
             /\ \/ calls'[c].pc \in {"prompt", "acquire", "exchange"}
                \/ /\ calls'[c].pc = "done"
                   /\ calls'[c].result.kind \in
                          {"ProfileNotFound", "SSOCacheMissing", "SSONotLoggedIn"}]_vars

\* a resolve that found a record with text for an expiry is prompting for an MFA code
C23_Witness ==
    \E c \in Calls :
        /\ calls[c].pc = "prompt"
        /\ cache[calls[c].profileName] = Stored(Garbage)
        /\ calls[c].cached = "unparsable"

============================================================================
